---- MODULE Spec2Model ----
(***************************************************************************)
(* Model of the Quaderno REST client (src/__init__.py): the error type     *)
(* QuadernoError, the request dispatcher Client.request and the resource   *)
(* methods built on it.                                                    *)
(*                                                                         *)
(* Python values are modelled as follows.                                  *)
(*   str, bytes          TLA+ strings                                      *)
(*   Optional[x]         <<>> for None, <<x>> for a value                  *)
(*   dict of str         a function whose domain is the set of keys        *)
(*   a parsed JSON value a tagged record [t |-> type name, v |-> payload]  *)
(***************************************************************************)
EXTENDS Integers, Sequences, FiniteSets, TLC

VARIABLES client, pc, call, req, nexch, resp, result

vars == <<client, pc, call, req, nexch, resp, result>>

-----------------------------------------------------------------------------
(* Bounds                                                                  *)

NumThreads == 2

Threads == 1..NumThreads

-----------------------------------------------------------------------------
(* Python values                                                           *)

None == <<>>

Some(x) == <<x>>

EmptyDict == <<>>

PyNone == [t |-> "NoneType"]

PyStr(s) == [t |-> "str", v |-> s]

PyInt(n) == [t |-> "int", v |-> n]

PyBool(b) == [t |-> "bool", v |-> b]

PyList(q) == [t |-> "list", v |-> q]

PyDict(f) == [t |-> "dict", v |-> f]

\* dict.update: the entries of other replace those of base
DictUpdate(base, other) == other @@ base

\* `x or {}` for an optional dict
OrEmpty(opt) == IF opt = None THEN EmptyDict ELSE opt[1]

-----------------------------------------------------------------------------
(* json.loads on the subset of JSON made of objects, arrays, strings       *)
(* without escapes, non-negative integers, null, true and false, with      *)
(* spaces as the only white space.  The result is [ok |-> FALSE] where     *)
(* json.loads raises ValueError.                                           *)

Ch(s, i) == IF i >= 1 /\ i <= Len(s) THEN SubSeq(s, i, i) ELSE ""

Slice(s, i, j) == SubSeq(s, i, IF j <= Len(s) THEN j ELSE Len(s))

Digits == {"0", "1", "2", "3", "4", "5", "6", "7", "8", "9"}

DigitVal(c) ==
    CASE c = "0" -> 0 [] c = "1" -> 1 [] c = "2" -> 2 [] c = "3" -> 3
      [] c = "4" -> 4 [] c = "5" -> 5 [] c = "6" -> 6 [] c = "7" -> 7
      [] c = "8" -> 8 [] c = "9" -> 9

ParseFail == [ok |-> FALSE]

ParseOk(val, next) == [ok |-> TRUE, val |-> val, next |-> next]

RECURSIVE SkipWs(_, _)
SkipWs(s, i) == IF Ch(s, i) = " " THEN SkipWs(s, i + 1) ELSE i

\* position of the closing quote at or after i, 0 when the string is unterminated
RECURSIVE ScanString(_, _)
ScanString(s, i) ==
    IF i > Len(s) THEN 0
    ELSE IF Ch(s, i) = "\"" THEN i
    ELSE ScanString(s, i + 1)

RECURSIVE ScanInt(_, _, _)
ScanInt(s, i, acc) ==
    IF Ch(s, i) \in Digits
    THEN ScanInt(s, i + 1, acc * 10 + DigitVal(Ch(s, i)))
    ELSE ParseOk(PyInt(acc), i)

RECURSIVE ParseValue(_, _)
RECURSIVE ParseMembers(_, _, _)
RECURSIVE ParseElements(_, _, _)

ParseValue(s, i0) ==
    LET i == SkipWs(s, i0)
        c == Ch(s, i)
    IN  CASE c = "{" ->
               LET j == SkipWs(s, i + 1)
               IN  IF Ch(s, j) = "}" THEN ParseOk(PyDict(EmptyDict), j + 1)
                   ELSE ParseMembers(s, j, EmptyDict)
          [] c = "[" ->
               LET j == SkipWs(s, i + 1)
               IN  IF Ch(s, j) = "]" THEN ParseOk(PyList(<<>>), j + 1)
                   ELSE ParseElements(s, j, <<>>)
          [] c = "\"" ->
               LET e == ScanString(s, i + 1)
               IN  IF e = 0 THEN ParseFail
                   ELSE ParseOk(PyStr(SubSeq(s, i + 1, e - 1)), e + 1)
          [] c = "0" -> ParseOk(PyInt(0), i + 1)
          [] c \in Digits \ {"0"} -> ScanInt(s, i, 0)
          [] c = "n" -> IF Slice(s, i, i + 3) = "null"
                        THEN ParseOk(PyNone, i + 4) ELSE ParseFail
          [] c = "t" -> IF Slice(s, i, i + 3) = "true"
                        THEN ParseOk(PyBool(TRUE), i + 4) ELSE ParseFail
          [] c = "f" -> IF Slice(s, i, i + 4) = "false"
                        THEN ParseOk(PyBool(FALSE), i + 5) ELSE ParseFail
          [] OTHER -> ParseFail

\* the members of an object after "{" or ","; a repeated key keeps its last value
ParseMembers(s, i0, acc) ==
    LET i == SkipWs(s, i0)
    IN  IF Ch(s, i) # "\"" THEN ParseFail
        ELSE LET e == ScanString(s, i + 1)
             IN  IF e = 0 THEN ParseFail
                 ELSE LET key == SubSeq(s, i + 1, e - 1)
                          col == SkipWs(s, e + 1)
                      IN  IF Ch(s, col) # ":" THEN ParseFail
                          ELSE LET r == ParseValue(s, col + 1)
                               IN  IF ~r.ok THEN ParseFail
                                   ELSE LET k   == SkipWs(s, r.next)
                                            new == (key :> r.val) @@ acc
                                        IN  CASE Ch(s, k) = "," -> ParseMembers(s, k + 1, new)
                                              [] Ch(s, k) = "}" -> ParseOk(PyDict(new), k + 1)
                                              [] OTHER -> ParseFail

ParseElements(s, i0, acc) ==
    LET r == ParseValue(s, i0)
    IN  IF ~r.ok THEN ParseFail
        ELSE LET k   == SkipWs(s, r.next)
                 new == Append(acc, r.val)
             IN  CASE Ch(s, k) = "," -> ParseElements(s, k + 1, new)
                   [] Ch(s, k) = "]" -> ParseOk(PyList(new), k + 1)
                   [] OTHER -> ParseFail

JsonLoads(s) ==
    LET r == ParseValue(s, 1)
    IN  IF r.ok /\ SkipWs(s, r.next) = Len(s) + 1
        THEN [ok |-> TRUE, val |-> r.val]
        ELSE ParseFail

-----------------------------------------------------------------------------
(* The Python operations QuadernoError.__init__ applies to the parsed body. *)
(* Each yields [exc |-> ""] with a value, or the name of the exception the  *)
(* interpreter raises for that type of operand.                             *)

IsSubstring(sub, s) ==
    \E i \in 1..(Len(s) - Len(sub) + 1) : SubSeq(s, i, i + Len(sub) - 1) = sub

\* `key in x`
PyContains(x, key) ==
    CASE x.t = "dict" -> [exc |-> "", val |-> key \in DOMAIN x.v]
      [] x.t = "list" -> [exc |-> "", val |-> \E i \in 1..Len(x.v) : x.v[i] = PyStr(key)]
      [] x.t = "str"  -> [exc |-> "", val |-> IsSubstring(key, x.v)]
      [] OTHER -> [exc |-> "TypeError"]

\* `x[key]` for a str key
PyGetItem(x, key) ==
    CASE x.t = "dict" -> IF key \in DOMAIN x.v
                         THEN [exc |-> "", val |-> x.v[key]]
                         ELSE [exc |-> "KeyError"]
      [] OTHER -> [exc |-> "TypeError"]

\* `x.get(key, default)`
PyGet(x, key, default) ==
    CASE x.t = "dict" -> [exc |-> "", val |-> IF key \in DOMAIN x.v THEN x.v[key] ELSE default]
      [] OTHER -> [exc |-> "AttributeError"]

-----------------------------------------------------------------------------
(* class QuadernoError                                                     *)

Raise(name) == [kind |-> "raise", exc |-> name]

\* QuadernoError.__init__ looking at the error key before the errors key
QuadernoErrorErrorKeyFirst(response) ==
    LET code   == response.status_code
        parsed == JsonLoads(response.content)
        Built(message, errors) ==
            [kind |-> "raise", exc |-> "QuadernoError", response |-> response,
             code |-> code, message |-> message, errors |-> errors]
    IN  IF ~parsed.ok THEN Built(PyStr("Unknown Error"), PyNone)
        ELSE LET error == parsed.val
                 has   == PyContains(error, "error")
             IN  IF has.exc # "" THEN Raise(has.exc)
                 ELSE IF has.val
                 THEN LET item == PyGetItem(error, "error")
                      IN  IF item.exc # "" THEN Raise(item.exc)
                          ELSE Built(item.val, PyNone)
                 ELSE LET got == PyGet(error, "errors", PyNone)
                      IN  IF got.exc # "" THEN Raise(got.exc)
                          ELSE IF got.val = PyNone THEN Built(PyStr("HTTP Error"), PyNone)
                          ELSE Built(PyStr("Validation Error"), got.val)

\* QuadernoError.__init__ giving an unparsable body the generic message
QuadernoErrorGenericOnParseFailure(response) ==
    LET code   == response.status_code
        parsed == JsonLoads(response.content)
        Built(message, errors) ==
            [kind |-> "raise", exc |-> "QuadernoError", response |-> response,
             code |-> code, message |-> message, errors |-> errors]
    IN  IF ~parsed.ok THEN Built(PyStr("HTTP Error"), PyNone)
        ELSE LET error == parsed.val
                 has   == PyContains(error, "errors")
             IN  IF has.exc # "" THEN Raise(has.exc)
                 ELSE IF has.val
                 THEN LET item == PyGetItem(error, "errors")
                      IN  IF item.exc # "" THEN Raise(item.exc)
                          ELSE Built(PyStr("Validation Error"), item.val)
                 ELSE LET got == PyGet(error, "error", PyStr("HTTP Error"))
                      IN  IF got.exc # "" THEN Raise(got.exc)
                          ELSE Built(got.val, PyNone)

\* QuadernoError.__init__(response), for a response that is not None (the
\* only way Client.request calls it): the exception object it builds, or the
\* exception that escapes from the constructor itself.
QuadernoError(response) ==
    LET code   == response.status_code
        parsed == JsonLoads(response.content)
        Built(message, errors) ==
            [kind |-> "raise", exc |-> "QuadernoError", response |-> response,
             code |-> code, message |-> message, errors |-> errors]
    IN  IF ~parsed.ok THEN Built(PyStr("Unknown Error"), PyNone)
        ELSE LET error == parsed.val
                 has   == PyContains(error, "errors")
             IN  IF has.exc # "" THEN Raise(has.exc)
                 ELSE IF has.val
                 THEN LET item == PyGetItem(error, "errors")
                      IN  IF item.exc # "" THEN Raise(item.exc)
                          ELSE Built(PyStr("Validation Error"), item.val)
                 ELSE LET got == PyGet(error, "error", PyStr("HTTP Error"))
                      IN  IF got.exc # "" THEN Raise(got.exc)
                          ELSE Built(got.val, PyNone)

-----------------------------------------------------------------------------
(* class Client                                                            *)

__version__ == "0.0.5"

user_agent == "QuadernoSdk/api-rest-sdk:" \o __version__

\* Client.__init__
ClientInit(token, api_host, version, ctype) ==
    [token |-> token, ctype |-> ctype, version |-> version, host |-> api_host]

\* truth value of an Optional[str]
Truthy(opt) == opt # None /\ opt[1] # ""

\* Client.headers handing out one dict shared by all calls, which carries
\* what request() merged into it for a call still in progress
headersShared(self) ==
    LET base   == ("User-Agent" :> user_agent)
        fresh  == IF Truthy(self.version)
                  THEN DictUpdate(base, ("Accept" :> "application/json; api_version={self.version}"))
                  ELSE base
        others == {t \in Threads : req[t] # None}
    IN  IF others = {} THEN fresh
        ELSE DictUpdate(req[CHOOSE t \in others : TRUE][1].headers, fresh)

\* Client.headers: a new dict on every access.  The f prefix is on the key
\* and the value is a plain literal, so the braces are sent as written.
headers(self) ==
    LET base == ("User-Agent" :> user_agent)
    IN  IF Truthy(self.version)
        THEN DictUpdate(base, ("Accept" :> "application/json; api_version={self.version}"))
        ELSE base

NoKw == [headers |-> None, params |-> None, json |-> None]

\* Client.request merging in the other order: the client's headers replace
\* the caller's
requestDefaultsWin(self, url, method, kw) ==
    [method  |-> method,
     url     |-> url,
     headers |-> DictUpdate(OrEmpty(kw.headers), headers(self)),
     auth    |-> <<self.token, "">>,
     params  |-> kw.params,
     json    |-> kw.json]

\* Client.request up to the call of requests.request: the arguments the
\* transport is called with.  kw holds the keyword arguments; kw.headers is
\* the headers parameter.
request(self, url, method, kw) ==
    [method  |-> method,
     url     |-> url,
     headers |-> DictUpdate(headers(self), OrEmpty(kw.headers)),
     auth    |-> <<self.token, "">>,
     params  |-> kw.params,
     json    |-> kw.json]

\* Client.request with the upper end of the success range off by one
RequestOutcomeUpperEnd(response) ==
    IF ~(200 <= response.status_code /\ response.status_code < 299)
    THEN QuadernoError(response)
    ELSE [kind |-> "return", response |-> response]

\* Client.request after the transport returned: raise or return
RequestOutcome(response) ==
    IF ~(200 <= response.status_code /\ response.status_code < 300)
    THEN QuadernoError(response)
    ELSE [kind |-> "return", response |-> response]

\* Client._endpoint with the content type fixed to json
_endpointJsonOnly(self, action, method, kw) ==
    request(self, self.host \o "/api/" \o action \o ".json", method, kw)

\* Client._endpoint
_endpoint(self, action, method, kw) ==
    request(self, self.host \o "/api/" \o action \o "." \o self.ctype, method, kw)

get(self, action, params, kwargs) ==
    _endpoint(self, action, "GET",
             [NoKw EXCEPT !.params = Some(DictUpdate(kwargs, OrEmpty(params)))])

post(self, action, json) == _endpoint(self, action, "POST", [NoKw EXCEPT !.json = json])

put(self, action, json) == _endpoint(self, action, "PUT", [NoKw EXCEPT !.json = json])

delete(self, action, kw) == _endpoint(self, action, "DELETE", kw)

ping(self) == get(self, "ping", None, EmptyDict)

contacts(self, params, kwargs) == get(self, "contacts", None, kwargs)

post_contact(self, json) == post(self, "contacts", Some(json))

get_contact(self, id) == get(self, "contacts/" \o id, None, EmptyDict)

put_contact(self, id, json) == put(self, "contacts/" \o id, Some(json))

delete_contact(self, id) == delete(self, "contacts/" \o id, NoKw)

invoices(self, params, kwargs) == get(self, "invoices", None, kwargs)

post_invoice(self, json) == post(self, "invoices", Some(json))

add_payment_to_invoice(self, id, json) ==
    post(self, "invoices/" \o id \o "/payments", Some(json))

drop_payment_from_invoice(self, id, payment_id) ==
    delete(self, "invoices/" \o id \o "/payments/" \o payment_id, NoKw)

get_invoice(self, id) == get(self, "invoices/" \o id, None, EmptyDict)

put_invoice(self, id, json) == put(self, "invoices/" \o id, Some(json))

deliver_invoice(self, id) == get(self, "invoices/" \o id \o "/deliver", None, EmptyDict)

delete_invoice(self, id) == delete(self, "invoices/" \o id, NoKw)

expenses(self, params, kwargs) == get(self, "expenses", None, kwargs)

post_expense(self, json) == post(self, "expenses", Some(json))

add_payment_to_expense(self, id, json) ==
    post(self, "expenses/" \o id \o "/payments", Some(json))

drop_payment_from_expense(self, id, payment_id) ==
    delete(self, "expenses/" \o id \o "/payments/" \o payment_id, NoKw)

get_expense(self, id) == get(self, "expenses/" \o id, None, EmptyDict)

put_expense(self, id, json) == put(self, "expenses/" \o id, Some(json))

delete_expense(self, id) == delete(self, "expenses/" \o id, NoKw)

estimates(self, params, kwargs) == get(self, "estimates", None, kwargs)

post_estimate(self, json) == post(self, "estimates", Some(json))

get_estimate(self, id) == get(self, "estimates/" \o id, None, EmptyDict)

put_estimate(self, id, json) == put(self, "estimates/" \o id, Some(json))

deliver_estimate(self, id) == get(self, "estimates/" \o id \o "/deliver", None, EmptyDict)

delete_estimate(self, id) == delete(self, "estimates/" \o id, NoKw)

credits(self, params, kwargs) == get(self, "credits", None, kwargs)

post_credit(self, json) == post(self, "credits", Some(json))

get_credit(self, id) == get(self, "credits/" \o id, None, EmptyDict)

put_credit(self, id, json) == put(self, "credits/" \o id, Some(json))

deliver_credit(self, id) == get(self, "credits/" \o id \o "/deliver", None, EmptyDict)

delete_credit(self, id) == delete(self, "credits/" \o id, NoKw)

recurring(self, params, kwargs) == get(self, "recurring", None, kwargs)

post_recurring(self, json) == post(self, "recurring", Some(json))

get_recurring(self, id) == get(self, "recurring/" \o id, None, EmptyDict)

put_recurring(self, id, json) == put(self, "recurring/" \o id, Some(json))

delete_recurring(self, id) == delete(self, "recurring/" \o id, NoKw)

items(self, params, kwargs) == get(self, "items", None, kwargs)

post_item(self, json) == post(self, "items", Some(json))

get_item(self, id) == get(self, "items/" \o id, None, EmptyDict)

put_item(self, id, json) == put(self, "items/" \o id, Some(json))

delete_item(self, id) == delete(self, "items/" \o id, NoKw)

webhooks(self, params, kwargs) == get(self, "webhooks", None, kwargs)

post_webhook(self, json) == post(self, "webhooks", Some(json))

get_webhook(self, id) == get(self, "webhooks/" \o id, None, EmptyDict)

put_webhook(self, id, json) == put(self, "webhooks/" \o id, Some(json))

delete_webhook(self, id) == delete(self, "webhooks/" \o id, NoKw)

calculator(self, params, kwargs) == get(self, "tax_rates/calculate", params, kwargs)

get_charges(self, processor, id) ==
    get(self, processor \o "/charges/" \o id, None, EmptyDict)

get_refunds(self, processor, id) ==
    get(self, processor \o "/refunds/" \o id, None, EmptyDict)

-----------------------------------------------------------------------------
(* Callers' inputs                                                         *)

Tokens == {"sk_test_token"}

Hosts == {"https://quadernoapp.com"}

Versions == {None, Some(""), Some("20160602")}

CTypes == {"json", "xml"}

Ids == {"42"}

PaymentIds == {"9"}

Processors == {"stripe"}

JsonBodies == {[amount |-> 10], [amount |-> 25]}

ParamsArgs == {None, Some([page |-> "2"])}

KwargsArgs == {EmptyDict, [page |-> "1"], [q |-> "acme"]}

HeaderArgs ==
    {None, Some("User-Agent" :> "curl/8.0"), Some("user-agent" :> "curl/8.0"),
     Some("X-Request-Id" :> "r1")}

ListOps ==
    {"contacts", "invoices", "expenses", "estimates", "credits", "recurring",
     "items", "webhooks"}

CreateOps ==
    {"post_contact", "post_invoice", "post_expense", "post_estimate",
     "post_credit", "post_recurring", "post_item", "post_webhook"}

ReadOps ==
    {"get_contact", "get_invoice", "get_expense", "get_estimate", "get_credit",
     "get_recurring", "get_item", "get_webhook",
     "deliver_invoice", "deliver_estimate", "deliver_credit"}

UpdateOps ==
    {"put_contact", "put_invoice", "put_expense", "put_estimate", "put_credit",
     "put_recurring", "put_item", "put_webhook"}

DeleteOps ==
    {"delete_contact", "delete_invoice", "delete_expense", "delete_estimate",
     "delete_credit", "delete_recurring", "delete_item", "delete_webhook"}

AddPaymentOps == {"add_payment_to_invoice", "add_payment_to_expense"}

DropPaymentOps == {"drop_payment_from_invoice", "drop_payment_from_expense"}

ProcessorOps == {"get_charges", "get_refunds"}

\* one call of a method of Client: the method and its arguments (a and b are
\* the positional str arguments, "" where the method has none)
MkCall(op, a, b, json, params, kwargs, hdrs) ==
    [op |-> op, a |-> a, b |-> b, json |-> json, params |-> params,
     kwargs |-> kwargs, headers |-> hdrs]

ResourceCalls ==
    {MkCall("ping", "", "", None, None, EmptyDict, None)}
    \cup {MkCall(op, "", "", None, p, k, None) :
            op \in ListOps \cup {"calculator"}, p \in ParamsArgs, k \in KwargsArgs}
    \cup {MkCall(op, "", "", Some(j), None, EmptyDict, None) :
            op \in CreateOps, j \in JsonBodies}
    \cup {MkCall(op, id, "", None, None, EmptyDict, None) :
            op \in ReadOps \cup DeleteOps, id \in Ids}
    \cup {MkCall(op, id, "", Some(j), None, EmptyDict, None) :
            op \in UpdateOps \cup AddPaymentOps, id \in Ids, j \in JsonBodies}
    \cup {MkCall(op, id, pid, None, None, EmptyDict, None) :
            op \in DropPaymentOps, id \in Ids, pid \in PaymentIds}
    \cup {MkCall(op, proc, id, None, None, EmptyDict, None) :
            op \in ProcessorOps, proc \in Processors, id \in Ids}

\* direct calls of request (a is the url, b the method) and of the four verbs
\* (a is the action)
GenericCalls ==
    {MkCall("request", "https://quadernoapp.com/api/ping.json", "GET", None, None, EmptyDict, h) :
            h \in HeaderArgs}
    \cup {MkCall("get", "invoices", "", None, p, k, None) :
            p \in ParamsArgs, k \in KwargsArgs}
    \cup {MkCall(op, "invoices", "", j, None, EmptyDict, None) :
            op \in {"post", "put"}, j \in {None} \cup {Some(b) : b \in JsonBodies}}
    \cup {MkCall("delete", "invoices/42", "", None, None, EmptyDict, h) :
            h \in HeaderArgs}

AllCalls == ResourceCalls \cup GenericCalls

ConcurrentCalls == {c \in AllCalls : c.op \in {"request", "get_contact", "post_contact"}}

\* what the transport may answer
Statuses == {199, 200, 204, 299, 300, 404, 422, 500}

Bodies ==
    {"", "Internal Server Error", "{\"error\": ", "{}",
     "{\"error\": \"Not authorized\"}", "{\"error\": null}",
     "{\"message\": \"errors occurred\"}",
     "{\"errors\": {\"name\": [\"can't be blank\"]}}",
     "{\"errors\": [\"invalid\"], \"error\": \"Unprocessable\"}",
     "[]", "[\"errors\"]", "5", "null", "true", "\"oops\"", "\"errors\""}

ResponseHeaders ==
    {EmptyDict,
     ("x-ratelimit-remaining" :> "10") @@ ("x-ratelimit-reset" :> "1620000000")}

Responses == [status_code : Statuses, content : Bodies, headers : ResponseHeaders]

ConcurrentResponses ==
    {[status_code |-> 200, content |-> "{}", headers |-> EmptyDict],
     [status_code |-> 404, content |-> "{\"error\": \"Not found\"}", headers |-> EmptyDict]}

-----------------------------------------------------------------------------
(* The call c made on the client: the request handed to the transport      *)

Invoke(self, c) ==
    CASE c.op = "request" ->
           request(self, c.a, c.b, [headers |-> c.headers, params |-> c.params, json |-> c.json])
      [] c.op = "get" -> get(self, c.a, c.params, c.kwargs)
      [] c.op = "post" -> post(self, c.a, c.json)
      [] c.op = "put" -> put(self, c.a, c.json)
      [] c.op = "delete" -> delete(self, c.a, [NoKw EXCEPT !.headers = c.headers])
      [] c.op = "ping" -> ping(self)
      [] c.op = "contacts" -> contacts(self, c.params, c.kwargs)
      [] c.op = "post_contact" -> post_contact(self, c.json[1])
      [] c.op = "get_contact" -> get_contact(self, c.a)
      [] c.op = "put_contact" -> put_contact(self, c.a, c.json[1])
      [] c.op = "delete_contact" -> delete_contact(self, c.a)
      [] c.op = "invoices" -> invoices(self, c.params, c.kwargs)
      [] c.op = "post_invoice" -> post_invoice(self, c.json[1])
      [] c.op = "add_payment_to_invoice" -> add_payment_to_invoice(self, c.a, c.json[1])
      [] c.op = "drop_payment_from_invoice" -> drop_payment_from_invoice(self, c.a, c.b)
      [] c.op = "get_invoice" -> get_invoice(self, c.a)
      [] c.op = "put_invoice" -> put_invoice(self, c.a, c.json[1])
      [] c.op = "deliver_invoice" -> deliver_invoice(self, c.a)
      [] c.op = "delete_invoice" -> delete_invoice(self, c.a)
      [] c.op = "expenses" -> expenses(self, c.params, c.kwargs)
      [] c.op = "post_expense" -> post_expense(self, c.json[1])
      [] c.op = "add_payment_to_expense" -> add_payment_to_expense(self, c.a, c.json[1])
      [] c.op = "drop_payment_from_expense" -> drop_payment_from_expense(self, c.a, c.b)
      [] c.op = "get_expense" -> get_expense(self, c.a)
      [] c.op = "put_expense" -> put_expense(self, c.a, c.json[1])
      [] c.op = "delete_expense" -> delete_expense(self, c.a)
      [] c.op = "estimates" -> estimates(self, c.params, c.kwargs)
      [] c.op = "post_estimate" -> post_estimate(self, c.json[1])
      [] c.op = "get_estimate" -> get_estimate(self, c.a)
      [] c.op = "put_estimate" -> put_estimate(self, c.a, c.json[1])
      [] c.op = "deliver_estimate" -> deliver_estimate(self, c.a)
      [] c.op = "delete_estimate" -> delete_estimate(self, c.a)
      [] c.op = "credits" -> credits(self, c.params, c.kwargs)
      [] c.op = "post_credit" -> post_credit(self, c.json[1])
      [] c.op = "get_credit" -> get_credit(self, c.a)
      [] c.op = "put_credit" -> put_credit(self, c.a, c.json[1])
      [] c.op = "deliver_credit" -> deliver_credit(self, c.a)
      [] c.op = "delete_credit" -> delete_credit(self, c.a)
      [] c.op = "recurring" -> recurring(self, c.params, c.kwargs)
      [] c.op = "post_recurring" -> post_recurring(self, c.json[1])
      [] c.op = "get_recurring" -> get_recurring(self, c.a)
      [] c.op = "put_recurring" -> put_recurring(self, c.a, c.json[1])
      [] c.op = "delete_recurring" -> delete_recurring(self, c.a)
      [] c.op = "items" -> items(self, c.params, c.kwargs)
      [] c.op = "post_item" -> post_item(self, c.json[1])
      [] c.op = "get_item" -> get_item(self, c.a)
      [] c.op = "put_item" -> put_item(self, c.a, c.json[1])
      [] c.op = "delete_item" -> delete_item(self, c.a)
      [] c.op = "webhooks" -> webhooks(self, c.params, c.kwargs)
      [] c.op = "post_webhook" -> post_webhook(self, c.json[1])
      [] c.op = "get_webhook" -> get_webhook(self, c.a)
      [] c.op = "put_webhook" -> put_webhook(self, c.a, c.json[1])
      [] c.op = "delete_webhook" -> delete_webhook(self, c.a)
      [] c.op = "calculator" -> calculator(self, c.params, c.kwargs)
      [] c.op = "get_charges" -> get_charges(self, c.a, c.b)
      [] c.op = "get_refunds" -> get_refunds(self, c.a, c.b)

-----------------------------------------------------------------------------
(* State machine.  Each caller t (a thread or task sharing the one client)  *)
(* is idle, has built its request ("ready"), has handed it to the           *)
(* transport ("sent"), or holds the outcome of its call ("done").           *)

NoResult == [kind |-> "none"]

Init ==
    /\ client \in {ClientInit(tk, h, v, ct) :
                     tk \in Tokens, h \in Hosts, v \in Versions, ct \in CTypes}
    /\ pc = [t \in Threads |-> "idle"]
    /\ call = [t \in Threads |-> None]
    /\ req = [t \in Threads |-> None]
    /\ nexch = [t \in Threads |-> 0]
    /\ resp = [t \in Threads |-> None]
    /\ result = [t \in Threads |-> NoResult]

\* a method of the client is called: request() runs up to the transport call
Call(t, calls) ==
    /\ pc[t] = "idle"
    /\ \E c \in calls :
         /\ call' = [call EXCEPT ![t] = Some(c)]
         /\ req' = [req EXCEPT ![t] = Some(Invoke(client, c))]
    /\ pc' = [pc EXCEPT ![t] = "ready"]
    /\ UNCHANGED <<client, nexch, resp, result>>

\* requests.request(...) puts the request on the wire
Send(t) ==
    /\ pc[t] = "ready"
    /\ nexch' = [nexch EXCEPT ![t] = @ + 1]
    /\ pc' = [pc EXCEPT ![t] = "sent"]
    /\ UNCHANGED <<client, call, req, resp, result>>

\* requests.request(...) returns a response and request() classifies it
Respond(t, responses) ==
    /\ pc[t] = "sent"
    /\ \E r \in responses :
         /\ resp' = [resp EXCEPT ![t] = Some(r)]
         /\ result' = [result EXCEPT ![t] = RequestOutcome(r)]
    /\ pc' = [pc EXCEPT ![t] = "done"]
    /\ UNCHANGED <<client, call, req, nexch>>

\* requests.request(...) raises: nothing in request() catches it
TransportError(t) ==
    /\ pc[t] = "sent"
    /\ result' = [result EXCEPT ![t] = Raise("RequestException")]
    /\ pc' = [pc EXCEPT ![t] = "done"]
    /\ UNCHANGED <<client, call, req, nexch, resp>>

\* the caller takes the outcome; the locals of the call are gone
Finish(t) ==
    /\ pc[t] = "done"
    /\ pc' = [pc EXCEPT ![t] = "idle"]
    /\ call' = [call EXCEPT ![t] = None]
    /\ req' = [req EXCEPT ![t] = None]
    /\ nexch' = [nexch EXCEPT ![t] = 0]
    /\ resp' = [resp EXCEPT ![t] = None]
    /\ result' = [result EXCEPT ![t] = NoResult]
    /\ UNCHANGED client

\* one caller, every entry point, every response
Next ==
    \/ Call(1, AllCalls)
    \/ Send(1)
    \/ Respond(1, Responses)
    \/ TransportError(1)
    \/ Finish(1)

Spec == Init /\ [][Next]_vars

\* several callers sharing the client, their calls interleaved
NextConcurrent ==
    \E t \in Threads :
        \/ Call(t, ConcurrentCalls)
        \/ Send(t)
        \/ Respond(t, ConcurrentResponses)
        \/ TransportError(t)
        \/ Finish(t)

SpecConcurrent == Init /\ [][NextConcurrent]_vars

-----------------------------------------------------------------------------
(* Properties                                                              *)

TheCall(t) == call[t][1]

TheRequest(t) == req[t][1]

TheResponse(t) == resp[t][1]

OnTheWire(t) == pc[t] \in {"sent", "done"}

Answered(t) == pc[t] = "done" /\ resp[t] # None

Failure(t) == Answered(t) /\ ~(TheResponse(t).status_code \in 200..299)

Success(t) == Answered(t) /\ TheResponse(t).status_code \in 200..299

RaisedQuadernoError(t) == result[t].kind = "raise" /\ result[t].exc = "QuadernoError"

SdkUserAgent == "QuadernoSdk/api-rest-sdk:0.0.5"

\* C1: every failure response, whatever its body, makes request raise a
\* QuadernoError whose code is the response's status code; nothing else
\* escapes from the construction of the error.
C1_FailureRaisesQuadernoErrorWithCode ==
    \A t \in Threads :
        Failure(t) =>
            /\ RaisedQuadernoError(t)
            /\ result[t].code = TheResponse(t).status_code

\* C2: every response with a status code in [200,300) is returned to the
\* caller as it came from the transport, and no error is raised, whatever its
\* body and headers.
C2_SuccessReturnsResponseUnmodified ==
    \A t \in Threads :
        Success(t) =>
            /\ result[t].kind = "return"
            /\ result[t].response = TheResponse(t)

C2_Witness ==
    \E t \in Threads :
        /\ Success(t)
        /\ TheResponse(t).status_code = 299
        /\ TheResponse(t).content = "Internal Server Error"
        /\ TheResponse(t).headers # EmptyDict
        /\ result[t].kind = "return"

\* C3: a client constructed with a non-empty version v sends every request
\* with the Accept header "application/json; api_version=" followed by v; a
\* client without a version adds no Accept header.
C3_AcceptCarriesConfiguredVersion ==
    \A t \in Threads :
        OnTheWire(t) =>
            LET h == TheRequest(t).headers
            IN  IF Truthy(client.version)
                THEN /\ "Accept" \in DOMAIN h
                     /\ h["Accept"] = "application/json; api_version=" \o client.version[1]
                ELSE "Accept" \notin DOMAIN h

\* The resource table of the specification: the HTTP method and the action
\* of every resource method, $1 and $2 standing for the method's first and
\* second positional argument.
ResourceTable ==
    [ping                      |-> [m |-> "GET",    path |-> <<"ping">>],
     contacts                  |-> [m |-> "GET",    path |-> <<"contacts">>],
     post_contact              |-> [m |-> "POST",   path |-> <<"contacts">>],
     get_contact               |-> [m |-> "GET",    path |-> <<"contacts", "$1">>],
     put_contact               |-> [m |-> "PUT",    path |-> <<"contacts", "$1">>],
     delete_contact            |-> [m |-> "DELETE", path |-> <<"contacts", "$1">>],
     invoices                  |-> [m |-> "GET",    path |-> <<"invoices">>],
     post_invoice              |-> [m |-> "POST",   path |-> <<"invoices">>],
     add_payment_to_invoice    |-> [m |-> "POST",   path |-> <<"invoices", "$1", "payments">>],
     drop_payment_from_invoice |-> [m |-> "DELETE", path |-> <<"invoices", "$1", "payments", "$2">>],
     get_invoice               |-> [m |-> "GET",    path |-> <<"invoices", "$1">>],
     put_invoice               |-> [m |-> "PUT",    path |-> <<"invoices", "$1">>],
     deliver_invoice           |-> [m |-> "GET",    path |-> <<"invoices", "$1", "deliver">>],
     delete_invoice            |-> [m |-> "DELETE", path |-> <<"invoices", "$1">>],
     expenses                  |-> [m |-> "GET",    path |-> <<"expenses">>],
     post_expense              |-> [m |-> "POST",   path |-> <<"expenses">>],
     add_payment_to_expense    |-> [m |-> "POST",   path |-> <<"expenses", "$1", "payments">>],
     drop_payment_from_expense |-> [m |-> "DELETE", path |-> <<"expenses", "$1", "payments", "$2">>],
     get_expense               |-> [m |-> "GET",    path |-> <<"expenses", "$1">>],
     put_expense               |-> [m |-> "PUT",    path |-> <<"expenses", "$1">>],
     delete_expense            |-> [m |-> "DELETE", path |-> <<"expenses", "$1">>],
     estimates                 |-> [m |-> "GET",    path |-> <<"estimates">>],
     post_estimate             |-> [m |-> "POST",   path |-> <<"estimates">>],
     get_estimate              |-> [m |-> "GET",    path |-> <<"estimates", "$1">>],
     put_estimate              |-> [m |-> "PUT",    path |-> <<"estimates", "$1">>],
     deliver_estimate          |-> [m |-> "GET",    path |-> <<"estimates", "$1", "deliver">>],
     delete_estimate           |-> [m |-> "DELETE", path |-> <<"estimates", "$1">>],
     credits                   |-> [m |-> "GET",    path |-> <<"credits">>],
     post_credit               |-> [m |-> "POST",   path |-> <<"credits">>],
     get_credit                |-> [m |-> "GET",    path |-> <<"credits", "$1">>],
     put_credit                |-> [m |-> "PUT",    path |-> <<"credits", "$1">>],
     deliver_credit            |-> [m |-> "GET",    path |-> <<"credits", "$1", "deliver">>],
     delete_credit             |-> [m |-> "DELETE", path |-> <<"credits", "$1">>],
     recurring                 |-> [m |-> "GET",    path |-> <<"recurring">>],
     post_recurring            |-> [m |-> "POST",   path |-> <<"recurring">>],
     get_recurring             |-> [m |-> "GET",    path |-> <<"recurring", "$1">>],
     put_recurring             |-> [m |-> "PUT",    path |-> <<"recurring", "$1">>],
     delete_recurring          |-> [m |-> "DELETE", path |-> <<"recurring", "$1">>],
     items                     |-> [m |-> "GET",    path |-> <<"items">>],
     post_item                 |-> [m |-> "POST",   path |-> <<"items">>],
     get_item                  |-> [m |-> "GET",    path |-> <<"items", "$1">>],
     put_item                  |-> [m |-> "PUT",    path |-> <<"items", "$1">>],
     delete_item               |-> [m |-> "DELETE", path |-> <<"items", "$1">>],
     webhooks                  |-> [m |-> "GET",    path |-> <<"webhooks">>],
     post_webhook              |-> [m |-> "POST",   path |-> <<"webhooks">>],
     get_webhook               |-> [m |-> "GET",    path |-> <<"webhooks", "$1">>],
     put_webhook               |-> [m |-> "PUT",    path |-> <<"webhooks", "$1">>],
     delete_webhook            |-> [m |-> "DELETE", path |-> <<"webhooks", "$1">>],
     calculator                |-> [m |-> "GET",    path |-> <<"tax_rates", "calculate">>],
     get_charges               |-> [m |-> "GET",    path |-> <<"$1", "charges", "$2">>],
     get_refunds               |-> [m |-> "GET",    path |-> <<"$1", "refunds", "$2">>]]

RECURSIVE JoinPath(_, _)
JoinPath(path, c) ==
    LET seg == CASE path[1] = "$1" -> c.a [] path[1] = "$2" -> c.b [] OTHER -> path[1]
    IN  IF Len(path) = 1 THEN seg ELSE seg \o "/" \o JoinPath(Tail(path), c)

TableUrl(c) ==
    client.host \o "/api/" \o JoinPath(ResourceTable[c.op].path, c) \o "." \o client.ctype

\* C4: a call of a resource method makes exactly one HTTP exchange, whether
\* it succeeds or fails, with the method and the URL
\* <host>/api/<action>.<ctype> of the resource table, and with the body the
\* caller gave where the method takes one.
C4_OneExchangePerResourceCall ==
    \A t \in Threads :
        /\ nexch[t] <= 1
        /\ (OnTheWire(t) /\ TheCall(t).op \in DOMAIN ResourceTable) =>
              /\ nexch[t] = 1
              /\ TheRequest(t).method = ResourceTable[TheCall(t).op].m
              /\ TheRequest(t).url = TableUrl(TheCall(t))
              /\ TheRequest(t).json = TheCall(t).json

C4_Witness ==
    \E t \in Threads :
        /\ Failure(t)
        /\ TheCall(t).op = "add_payment_to_invoice"
        /\ client.ctype = "xml"
        /\ nexch[t] = 1
        /\ TheRequest(t).url = "https://quadernoapp.com/api/invoices/42/payments.xml"
        /\ TheRequest(t).json = Some([amount |-> 10])

\* the body of a failure response parsed, and whether it has the key k
ParsedBody(t) == JsonLoads(TheResponse(t).content)

BodyHasKey(t, k) == ParsedBody(t).val.t = "dict" /\ k \in DOMAIN ParsedBody(t).val.v

\* C5: a failure response whose body parses as JSON (object or not) and has
\* no errors key raises a QuadernoError whose message is the value of the
\* error key if the body has one and "HTTP Error" otherwise, without
\* structured errors.
C5_MessageFromErrorKey ==
    \A t \in Threads :
        (Failure(t) /\ ParsedBody(t).ok /\ ~BodyHasKey(t, "errors")) =>
            /\ RaisedQuadernoError(t)
            /\ result[t].message = IF BodyHasKey(t, "error")
                                   THEN ParsedBody(t).val.v["error"]
                                   ELSE PyStr("HTTP Error")
            /\ result[t].errors = PyNone

\* C6: a failure response whose body parses as JSON and has an errors key
\* raises a QuadernoError with the message "Validation Error" and the value
\* under errors as its structured errors, whether or not the body also has
\* an error key.
C6_ValidationError ==
    \A t \in Threads :
        (Failure(t) /\ ParsedBody(t).ok /\ BodyHasKey(t, "errors")) =>
            /\ RaisedQuadernoError(t)
            /\ result[t].message = PyStr("Validation Error")
            /\ result[t].errors = ParsedBody(t).val.v["errors"]

C6_Witness ==
    \E t \in Threads :
        /\ Failure(t)
        /\ TheResponse(t).content = "{\"errors\": [\"invalid\"], \"error\": \"Unprocessable\"}"
        /\ RaisedQuadernoError(t)
        /\ result[t].errors = PyList(<<PyStr("invalid")>>)

\* C7: a failure response whose body is not JSON raises a QuadernoError with
\* the message "Unknown Error", no structured errors, and the response's
\* status code as its code.
C7_UnknownError ==
    \A t \in Threads :
        (Failure(t) /\ ~ParsedBody(t).ok) =>
            /\ RaisedQuadernoError(t)
            /\ result[t].message = PyStr("Unknown Error")
            /\ result[t].errors = PyNone
            /\ result[t].code = TheResponse(t).status_code

C7_Witness ==
    \E t \in Threads :
        /\ Failure(t)
        /\ TheResponse(t).content = "Internal Server Error"
        /\ TheResponse(t).status_code = 500
        /\ RaisedQuadernoError(t)
        /\ result[t].code = 500

\* C8 as claimed: every request sent, through any entry point and with any
\* extra headers of the caller, has the User-Agent header of the SDK.
C8_UserAgentAlwaysSdk ==
    \A t \in Threads :
        OnTheWire(t) =>
            /\ "User-Agent" \in DOMAIN TheRequest(t).headers
            /\ TheRequest(t).headers["User-Agent"] = SdkUserAgent

CallerUserAgent(t) ==
    IF TheCall(t).headers # None /\ "User-Agent" \in DOMAIN TheCall(t).headers[1]
    THEN Some(TheCall(t).headers[1]["User-Agent"])
    ELSE None

\* C8 as amended: every request sent has a User-Agent header; it is the
\* SDK's unless the caller's extra headers have a User-Agent entry, and then
\* it is the caller's.
C8_UserAgentUnlessOverridden ==
    \A t \in Threads :
        OnTheWire(t) =>
            /\ "User-Agent" \in DOMAIN TheRequest(t).headers
            /\ TheRequest(t).headers["User-Agent"] =
                   IF CallerUserAgent(t) = None THEN SdkUserAgent ELSE CallerUserAgent(t)[1]

C8_Witness ==
    \E t \in Threads :
        /\ OnTheWire(t)
        /\ TheCall(t).op = "delete"
        /\ CallerUserAgent(t) = Some("curl/8.0")
        /\ TheRequest(t).headers["User-Agent"] = "curl/8.0"

\* the request of caller t is made of the client's configuration and of the
\* arguments of t's own call
OwnRequest(t) ==
    LET c      == TheCall(t)
        r      == TheRequest(t)
        extras == OrEmpty(c.headers)
    IN  /\ r.auth = <<client.token, "">>
        /\ DOMAIN r.headers \subseteq {"User-Agent", "Accept"} \cup DOMAIN extras
        /\ \A k \in DOMAIN extras : r.headers[k] = extras[k]
        /\ "User-Agent" \notin DOMAIN extras => r.headers["User-Agent"] = SdkUserAgent
        /\ c.op \in DOMAIN ResourceTable => r.url = TableUrl(c)
        /\ c.op = "request" => r.url = c.a
        /\ \A u \in Threads : (pc[u] # "idle" /\ call[u] = call[t]) => req[u] = req[t]

\* C9: the client keeps no state between calls: no call changes its token,
\* host, version or content type, and the headers, credentials and URL of a
\* request are those of the configuration and of that call's arguments,
\* whatever calls came before or run at the same time.
C9_NoStateBetweenCalls ==
    /\ [](\A t \in Threads : pc[t] # "idle" => OwnRequest(t))
    /\ [][client' = client]_vars

C9_Witness ==
    \E t, u \in Threads :
        /\ t # u
        /\ pc[t] = "sent" /\ pc[u] = "ready"
        /\ TheCall(t).headers = Some("X-Request-Id" :> "r1")
        /\ "X-Request-Id" \in DOMAIN TheRequest(t).headers
        /\ TheCall(u).headers = None
        /\ DOMAIN TheRequest(u).headers \subseteq {"User-Agent", "Accept"}

\* C10: for every list method and for calculator, each query parameter the
\* caller gives, in params or as a keyword argument, is in the query of the
\* GET request with its value (stated for calls that do not give one key two
\* different values).
C10_QueryParametersSent ==
    \A t \in Threads :
        (OnTheWire(t) /\ TheCall(t).op \in ListOps \cup {"calculator"}) =>
            LET p == OrEmpty(TheCall(t).params)
                k == TheCall(t).kwargs
                q == OrEmpty(TheRequest(t).params)
            IN  (\A x \in DOMAIN p \cap DOMAIN k : p[x] = k[x]) =>
                    /\ TheRequest(t).method = "GET"
                    /\ \A x \in DOMAIN p : x \in DOMAIN q /\ q[x] = p[x]
                    /\ \A x \in DOMAIN k : x \in DOMAIN q /\ q[x] = k[x]

====
